---- MODULE Spec2Model ----
(***************************************************************************)
(* A model of the energy-demand forecasting pipeline of                    *)
(* src/models/predictor.py (WeatherAPI, EnergyPredictor) as it is driven   *)
(* by the HTTP layer of src/app/main.py (startup_event, get_forecast).     *)
(*                                                                         *)
(* Conventions                                                             *)
(*  - A timestamp is a number of hours since 2023-01-01T00:00 (a Sunday).  *)
(*    The calendar is the Gregorian one of the non-leap year 2023 followed *)
(*    by January 2024.                                                     *)
(*  - A Python value that may be a number, None or a string is a record    *)
(*    [t |-> "num" | "null" | "str", v |-> Int].                           *)
(*  - A Python dict is a sequence of <<key, value>> pairs in insertion     *)
(*    order.                                                               *)
(*  - A path is the sequence of its "/"-separated components; a trailing   *)
(*    "/" shows as a last component "".                                    *)
(***************************************************************************)
EXTENDS Integers, Sequences, FiniteSets, TLC

VARIABLES
    model_path,     \* EnergyPredictor.model_path
    api_key,        \* the weather_api_key the engine was constructed with
    models,         \* EnergyPredictor.models: candidate name -> fit state
    best_model,     \* EnergyPredictor.best_model
    scaler,         \* EnergyPredictor.scaler (fit state of the object)
    features,       \* EnergyPredictor.features
    dirs,           \* directories of the file system
    files,          \* files of the file system: path -> content
    phase,          \* "boot" before startup_event ran, "serving" after
    last,           \* outcome of the last operation on the engine
    loads_ok,       \* load_model calls that returned normally, this process
    reads,          \* joblib.load calls on the artifact, this process
    provider_calls, \* HTTP requests sent to the weather provider, this process
    trains_ok,      \* train calls that returned normally, this process
    written,        \* the bundle the last completed train persisted
    nops,           \* operations run so far
    tpc,            \* concurrent predict calls: thread -> position
    tloc,           \* concurrent predict calls: thread -> local variables
    fx              \* feature-engineering check: input and both outputs

vars == <<model_path, api_key, models, best_model, scaler, features, dirs, files,
          phase, last, loads_ok, reads, provider_calls, trains_ok, written, nops,
          tpc, tloc, fx>>

engineVars == <<models, best_model, scaler, features>>
fsVars == <<dirs, files>>
concVars == <<tpc, tloc>>

----------------------------------------------------------------------------
(* Bounds of the model *)

MaxOps == 3          \* operations in one behaviour of Spec
MaxThreads == 2      \* predict calls running concurrently in SpecConc
MaxTimestamp == 8783 \* last timestamp of SpecFeat: 2024-01-01T23:00

(* Program constants *)

ForecastHours == 24  \* range(24)
DefaultTemperature == 25
DefaultHumidity == 60
DefaultWindSpeed == 5
DefaultCloudCover == 50

----------------------------------------------------------------------------
(* Values *)

(* a sequence given as a function, as the tuple of its elements *)
Tuple(f) == f \o << >>

None == [t |-> "null", v |-> 0]
Num(n) == [t |-> "num", v |-> n]
Str == [t |-> "str", v |-> 0]
IsNum(x) == x.t = "num"

Max(a, b) == IF a >= b THEN a ELSE b
Last(s) == s[Len(s)]
Front(s) == SubSeq(s, 1, Len(s) - 1)

(* dict[key]: the value of the first pair with that key *)
HasKey(d, k) == \E i \in 1..Len(d) : d[i][1] = k
Get(d, k) == d[CHOOSE i \in 1..Len(d) : d[i][1] = k][2]
Keys(d) == [i \in 1..Len(d) |-> d[i][1]]

----------------------------------------------------------------------------
(* Calendar: datetime fields of a timestamp *)

MonthLengths == <<31, 28, 31, 30, 31, 30, 31, 31, 30, 31, 30, 31>>

RECURSIVE DaysBefore(_)
DaysBefore(m) == IF m = 1 THEN 0 ELSE DaysBefore(m - 1) + MonthLengths[m - 1]

DayNumber(t) == t \div 24
YearOf(t) == 2023 + (DayNumber(t) \div 365)
DayOfYear(t) == DayNumber(t) % 365
(* the month and the day of the month of the days 1..365 of the year *)
MonthOfDay == Tuple([d \in 1..365 |-> CHOOSE m \in 1..12 :
    /\ DaysBefore(m) < d
    /\ d <= DaysBefore(m) + MonthLengths[m]])
DayOfMonthOfDay == Tuple([d \in 1..365 |-> d - DaysBefore(MonthOfDay[d])])
MonthOf(t) == MonthOfDay[DayOfYear(t) + 1]
DayOfMonth(t) == DayOfMonthOfDay[DayOfYear(t) + 1]
HourOf(t) == t % 24
(* datetime.weekday() and Series.dt.dayofweek: Monday is 0, Sunday is 6 *)
Weekday(t) == (6 + DayNumber(t)) % 7

(* start_time + timedelta(hours=i) *)
PlusHours(t, i) == t + i

(* datetime.isoformat(): "YYYY-MM-DDTHH:00:00" as its fields *)
isoformat(t) == [year |-> YearOf(t), month |-> MonthOf(t),
                 day |-> DayOfMonth(t), hour |-> HourOf(t)]

(* order of two ISO strings of the same layout: lexicographic on the fields *)
IsoLess(a, b) ==
    \/ a.year < b.year
    \/ a.year = b.year /\ a.month < b.month
    \/ a.year = b.year /\ a.month = b.month /\ a.day < b.day
    \/ a.year = b.year /\ a.month = b.month /\ a.day = b.day /\ a.hour < b.hour

----------------------------------------------------------------------------
(* Feature engineering *)

(* train, lines 72-73: the feature order recorded in the bundle *)
TrainFeatureNames ==
    <<"hour", "day_of_week", "month", "is_weekend", "season",
      "temperature", "humidity", "solar_irradiance", "wind_speed">>

(* Season without the wrap of December: month // 3 + 1 *)
Season_NoWrap(month) == (month \div 3) + 1

(* month % 12 // 3 + 1 *)
Season(month) == ((month % 12) \div 3) + 1

(* train, lines 65-69: the columns added to one row of the data frame.
   rec is a row of the CSV as a dict whose "datetime" is a timestamp. *)
TrainFrameRow(rec) ==
    LET dt == Get(rec, "datetime").v
        day_of_week == Weekday(dt)
    IN  rec \o
        << <<"hour", Num(HourOf(dt))>>,
           <<"day_of_week", Num(day_of_week)>>,
           <<"month", Num(MonthOf(dt))>>,
           <<"is_weekend", Num(IF day_of_week \in {5, 6} THEN 1 ELSE 0)>>,
           <<"season", Num(Season(MonthOf(dt)))>> >>

(* SolarIrradiance taking the cloud fraction itself: 1000 * (cloud_cover / 100) *)
SolarIrradiance_CloudFraction(cloud_cover) == Max(0, (1000 * cloud_cover) \div 100)

(* max(0, 1000 * (1 - cloud_cover / 100)) for an integral cloud_cover *)
SolarIrradiance(cloud_cover) == Max(0, (1000 * (100 - cloud_cover)) \div 100)

(* PredictFeatureDict with day_of_week taken from isoweekday() (Monday is 1) *)
PredictFeatureDict_Isoweekday(forecast_time, weather_data) ==
    << <<"hour", Num(HourOf(forecast_time))>>,
       <<"day_of_week", Num(Weekday(forecast_time) + 1)>>,
       <<"month", Num(MonthOf(forecast_time))>>,
       <<"is_weekend", Num(IF Weekday(forecast_time) + 1 \in {5, 6} THEN 1 ELSE 0)>>,
       <<"season", Num(Season(MonthOf(forecast_time)))>>,
       <<"temperature", Get(weather_data, "temperature")>>,
       <<"humidity", Get(weather_data, "humidity")>>,
       <<"wind_speed", Get(weather_data, "wind_speed")>>,
       <<"solar_irradiance",
         Num(SolarIrradiance(Get(weather_data, "cloud_cover").v))>> >>

(* PredictFeatureDict with a temperature that falls through the night, a
   per-hour weather instead of the one snapshot *)
PredictFeatureDict_HourlyWeather(forecast_time, weather_data) ==
    << <<"hour", Num(HourOf(forecast_time))>>,
       <<"day_of_week", Num(Weekday(forecast_time))>>,
       <<"month", Num(MonthOf(forecast_time))>>,
       <<"is_weekend", Num(IF Weekday(forecast_time) \in {5, 6} THEN 1 ELSE 0)>>,
       <<"season", Num(Season(MonthOf(forecast_time)))>>,
       <<"temperature",
         Num(Get(weather_data, "temperature").v - (HourOf(forecast_time) \div 12))>>,
       <<"humidity", Get(weather_data, "humidity")>>,
       <<"wind_speed", Get(weather_data, "wind_speed")>>,
       <<"solar_irradiance",
         Num(SolarIrradiance(Get(weather_data, "cloud_cover").v))>> >>

(* predict, lines 146-156: the per-hour dict, in the order it is built.
   weather_data is a dict; the caller has checked that cloud_cover is a number *)
PredictFeatureDict(forecast_time, weather_data) ==
    << <<"hour", Num(HourOf(forecast_time))>>,
       <<"day_of_week", Num(Weekday(forecast_time))>>,
       <<"month", Num(MonthOf(forecast_time))>>,
       <<"is_weekend", Num(IF Weekday(forecast_time) \in {5, 6} THEN 1 ELSE 0)>>,
       <<"season", Num(Season(MonthOf(forecast_time)))>>,
       <<"temperature", Get(weather_data, "temperature")>>,
       <<"humidity", Get(weather_data, "humidity")>>,
       <<"wind_speed", Get(weather_data, "wind_speed")>>,
       <<"solar_irradiance",
         Num(SolarIrradiance(Get(weather_data, "cloud_cover").v))>> >>

(* SelectColumns taking the values in the order the row was built in *)
SelectColumns_BuiltOrder(row, names) == Tuple([k \in 1..Len(names) |-> row[k][2]])

(* df[names]: the columns of a row selected by name, in the order of names *)
CanSelect(row, names) == \A k \in 1..Len(names) : HasKey(row, names[k])
SelectColumns(row, names) == Tuple([k \in 1..Len(names) |-> Get(row, names[k])])

----------------------------------------------------------------------------
(* Weather provider *)

Obj(pairs) == [t |-> "obj", v |-> pairs]
Raised == [t |-> "raise", v |-> 0]

(* x[k] on a parsed JSON value: KeyError or TypeError shows as Raised *)
Subscript(x, k) ==
    IF x.t = "obj"
    THEN IF HasKey(x.v, k) THEN Get(x.v, k) ELSE Raised
    ELSE Raised

Payload(main, wind, clouds) ==
    Obj(<< <<"main", main>>, <<"wind", wind>>, <<"clouds", clouds>> >>)
Main(temp, humidity) == Obj(<< <<"temp", temp>>, <<"humidity", humidity>> >>)
Wind(speed) == Obj(<< <<"speed", speed>> >>)
Clouds(all) == Obj(<< <<"all", all>> >>)

NoBody == Obj(<< >>)

(* What one HTTP round trip to the provider can end in *)
GoodResponses ==
    { [kind |-> "json", data |-> Payload(Main(Num(30), Num(40)), Wind(Num(7)), Clouds(Num(20)))],
      [kind |-> "json", data |-> Payload(Main(Num(10), Num(90)), Wind(Num(2)), Clouds(Num(100)))] }
FailedResponses ==
    { [kind |-> "transport_error", data |-> NoBody],
      [kind |-> "http_error", data |-> NoBody],
      [kind |-> "not_json", data |-> NoBody],
      \* a JSON object without "wind"
      [kind |-> "json", data |-> Obj(<< <<"main", Main(Num(30), Num(40))>>,
                                         <<"clouds", Clouds(Num(20))>> >>)],
      \* "main" is null
      [kind |-> "json", data |-> Payload(None, Wind(Num(7)), Clouds(Num(20)))],
      \* "clouds.all" is null
      [kind |-> "json", data |-> Payload(Main(Num(30), Num(40)), Wind(Num(7)), Clouds(None))],
      \* "main.temp" is a string
      [kind |-> "json", data |-> Payload(Main(Str, Num(40)), Wind(Num(7)), Clouds(Num(20)))] }
Responses == GoodResponses \cup FailedResponses

NoResponse == [kind |-> "not_called", data |-> NoBody]

(* WeatherAPI.get_current_weather: the dict, or None after any exception *)
get_current_weather(response) ==
    IF response.kind # "json"
    THEN None          \* requests.get, raise_for_status or json() raised
    ELSE LET temperature == Subscript(Subscript(response.data, "main"), "temp")
             humidity == Subscript(Subscript(response.data, "main"), "humidity")
             wind_speed == Subscript(Subscript(response.data, "wind"), "speed")
             cloud_cover == Subscript(Subscript(response.data, "clouds"), "all")
         IN  IF \/ temperature.t = "raise" \/ humidity.t = "raise"
                \/ wind_speed.t = "raise" \/ cloud_cover.t = "raise"
             THEN None
             ELSE Obj(<< <<"temperature", temperature>>,
                         <<"humidity", humidity>>,
                         <<"wind_speed", wind_speed>>,
                         <<"cloud_cover", cloud_cover>> >>)

(* weather_api_key values: None, "" and a key *)
KeyNone == "<None>"
ApiKeys == {KeyNone, "", "demo"}
Truthy(key) == key \notin {KeyNone, ""}

(* __init__, line 54: is self.weather_api a WeatherAPI object *)
HasWeatherApi(key) == Truthy(key)

(* ProviderAsked with the key tested against None only *)
ProviderAsked_NotNone(key) == key # KeyNone

(* get_weather_data, line 118: is the provider asked *)
ProviderAsked(key) == HasWeatherApi(key) /\ Truthy(key)

DefaultWeather ==
    << <<"temperature", Num(DefaultTemperature)>>,
       <<"humidity", Num(DefaultHumidity)>>,
       <<"wind_speed", Num(DefaultWindSpeed)>>,
       <<"cloud_cover", Num(DefaultCloudCover)>> >>

(* get_weather_data: the dict handed to predict; a non-empty dict is truthy *)
get_weather_data(key, response) ==
    IF ProviderAsked(key)
    THEN LET weather_data == get_current_weather(response)
         IN  IF weather_data.t = "obj" /\ Len(weather_data.v) > 0
             THEN weather_data.v
             ELSE DefaultWeather
    ELSE DefaultWeather

----------------------------------------------------------------------------
(* Paths and the file system *)

(* "models/" (predictor.py:47, config.py:42), "models",
   "models/baseline_model.pkl" (main.py:23) *)
ModelPaths == { <<"models", "">>, <<"models">>, <<"models", "baseline_model.pkl">> }

(* os.path.dirname: what precedes the last "/" *)
dirname(path) == IF Len(path) = 0 THEN << >> ELSE Front(path)

(* os.path.join(path, name) *)
join(path, name) ==
    IF Len(path) = 0 THEN <<name>>
    ELSE IF Last(path) = "" THEN Front(path) \o <<name>>
    ELSE path \o <<name>>

(* os.path.join(self.model_path, "best_model.pkl") *)
ModelFile(path) == join(path, "best_model.pkl")

Prefixes(path) == { SubSeq(path, 1, n) : n \in 1..Len(path) }

(* os.makedirs(d, exist_ok=True) raises FileNotFoundError on the empty path *)
MakedirsRaises(d) == Len(d) = 0
Makedirs(ds, d) == ds \cup Prefixes(d)

(* open(file, "wb") needs the parent directory; the empty parent is the
   working directory *)
CanCreate(ds, file) == dirname(file) = << >> \/ dirname(file) \in ds

(* os.path.exists(file) *)
exists(fs, file) == file \in DOMAIN fs

----------------------------------------------------------------------------
(* Objects of the bundle: one record shape for every Python object held in
   best_model, scaler, features and in the pickled dict.
     t = "null"   None
     t = "ref"    the candidate object self.models[kind]
     t = "obj"    a regressor of the given kind, fitted on data set fit
     t = "scaler" a StandardScaler fitted on data set fit
     t = "list"   a list of feature names v
   fit = 0 is an object that was never fitted. *)

Candidates == <<"random_forest", "gradient_boosting">>
CandidateSet == {Candidates[i] : i \in 1..Len(Candidates)}

PyNone == [t |-> "null", kind |-> "", fit |-> 0, v |-> << >>]
Ref(name) == [t |-> "ref", kind |-> name, fit |-> 0, v |-> << >>]
Regressor(kind, fit) == [t |-> "obj", kind |-> kind, fit |-> fit, v |-> << >>]
Scaler(fit) == [t |-> "scaler", kind |-> "", fit |-> fit, v |-> << >>]
List(names) == [t |-> "list", kind |-> "", fit |-> 0, v |-> names]

(* the object a reference denotes, by value *)
Deref(ms, x) == IF x.t = "ref" THEN Regressor(x.kind, ms[x.kind]) ELSE x

(* joblib.dump of a dict: the object graph by value *)
Corrupt == [t |-> "corrupt", v |-> << >>]
joblib_dump(ms, d) ==
    [t |-> "pickle", v |-> [i \in 1..Len(d) |-> <<d[i][1], Deref(ms, d[i][2])>>]]

(* joblib.load: the dict, or an exception on a corrupt file *)
joblib_load_raises(content) == content.t # "pickle"
joblib_load(content) == content.v

(* BundleDict with a new StandardScaler() in place of the fitted one *)
BundleDict_FreshScaler(bm, sc, fe) ==
    << <<"model", bm>>, <<"scaler", Scaler(0)>>, <<"features", fe>> >>

(* the bundle dict written by train, lines 99-103 *)
BundleDict(bm, sc, fe) ==
    << <<"model", bm>>, <<"scaler", sc>>, <<"features", fe>> >>

(* EnergyPredictor.load_model on an engine holding (bm, sc, fe): the fields
   after the call, the exception it raised ("" for none), and whether the
   artifact was read. The three assignments happen in the order of the code;
   a missing member raises KeyError at its assignment. *)
load_model(path, fs, bm, sc, fe) ==
    LET model_file == ModelFile(path) IN
    IF ~exists(fs, model_file)
    THEN [exc |-> "FileNotFoundError", best_model |-> bm, scaler |-> sc,
          features |-> fe, read |-> 0]
    ELSE IF joblib_load_raises(fs[model_file])
    THEN [exc |-> "UnpicklingError", best_model |-> bm, scaler |-> sc,
          features |-> fe, read |-> 1]
    ELSE LET saved_data == joblib_load(fs[model_file]) IN
         IF ~HasKey(saved_data, "model")
         THEN [exc |-> "KeyError", best_model |-> bm, scaler |-> sc,
               features |-> fe, read |-> 1]
         ELSE IF ~HasKey(saved_data, "scaler")
         THEN [exc |-> "KeyError", best_model |-> Get(saved_data, "model"),
               scaler |-> sc, features |-> fe, read |-> 1]
         ELSE IF ~HasKey(saved_data, "features")
         THEN [exc |-> "KeyError", best_model |-> Get(saved_data, "model"),
               scaler |-> Get(saved_data, "scaler"), features |-> fe, read |-> 1]
         ELSE [exc |-> "", best_model |-> Get(saved_data, "model"),
               scaler |-> Get(saved_data, "scaler"),
               features |-> Get(saved_data, "features"), read |-> 1]

----------------------------------------------------------------------------
(* EnergyPredictor.predict, lines 139-181, on the fields (ms, bm, sc, fe) the
   engine holds once the lazy load is over: the exception raised ("" for
   none) and the points returned. The steps are read from the last one
   (Result) back to the first (forecast). *)

(* StandardScaler.transform of one row: a term the scaler and the row decide *)
transform(sc, row) == [scaler |-> sc.fit, x |-> row]

(* regressor.predict on one scaled row: a term the model and the row decide *)
model_predict(m, scaled_row) == [model |-> <<m.kind, m.fit>>, input |-> scaled_row]

(* the weather annotation of every point, lines 173-178; features is the
   dict left over from the last iteration of the loop *)
Annotation(weather_data, feature_dict) ==
    [temperature |-> Get(weather_data, "temperature"),
     humidity |-> Get(weather_data, "humidity"),
     wind_speed |-> Get(weather_data, "wind_speed"),
     solar_irradiance |-> Get(feature_dict, "solar_irradiance")]

Failure(exc) == [exc |-> exc, points |-> << >>]

(* lines 166-181 *)
Result(start_time, weather_data, last_features, predictions) ==
    [exc |-> "",
     points |->
        Tuple([i \in 1..Len(predictions) |->
            [datetime |-> isoformat(PlusHours(start_time, i - 1)),
             predicted_demand |-> predictions[i],
             weather |-> Annotation(weather_data, last_features)]])]

(* line 164 *)
Predictions(start_time, weather_data, last_features, m, X_scaled) ==
    IF m.t = "null" THEN Failure("AttributeError")
    ELSE IF m.fit = 0 THEN Failure("NotFittedError")
    ELSE Result(start_time, weather_data, last_features,
                Tuple([i \in 1..Len(X_scaled) |-> model_predict(m, X_scaled[i])]))

(* line 161, the scaler *)
Scaled(start_time, weather_data, last_features, m, sc, X) ==
    IF sc.fit = 0 THEN Failure("NotFittedError")
    ELSE IF \E i \in 1..Len(X) : \E k \in 1..Len(X[i]) : X[i][k].t = "str"
    THEN Failure("ValueError")
    ELSE Predictions(start_time, weather_data, last_features, m,
                     Tuple([i \in 1..Len(X) |-> transform(sc, X[i])]))

(* lines 160-161, forecast_df[self.features] *)
Selected(start_time, weather_data, m, sc, fe, forecast_hours) ==
    IF fe.t # "list" THEN Failure("KeyError")
    ELSE IF \E i \in 1..Len(forecast_hours) : ~CanSelect(forecast_hours[i], fe.v)
    THEN Failure("KeyError")
    ELSE Scaled(start_time, weather_data, forecast_hours[Len(forecast_hours)], m, sc,
                Tuple([i \in 1..Len(forecast_hours) |->
                          SelectColumns(forecast_hours[i], fe.v)]))

forecast(start_time, weather_data, ms, bm, sc, fe) ==
    IF ~IsNum(Get(weather_data, "cloud_cover"))
    THEN Failure("TypeError")                           \* line 155
    ELSE Selected(start_time, weather_data, Deref(ms, bm), sc, fe,
            Tuple([i \in 1..ForecastHours |->
                PredictFeatureDict(PlusHours(start_time, i - 1), weather_data)]))

----------------------------------------------------------------------------
(* EnergyPredictor.train *)

NaN == [t |-> "nan", v |-> 0]
MinusInf == [t |-> "-inf", v |-> 0]

(* a > b on floats: false when a is NaN; b is a number or -inf *)
Greater(a, b) ==
    /\ a.t = "num"
    /\ \/ b.t = "-inf"
       \/ b.t = "num" /\ a.v > b.v

CsvColumns == {"datetime", "temperature", "humidity", "solar_irradiance",
               "wind_speed", "energy_demand"}

(* The training files tried: id is the identity of the data (what a fit on it
   yields), rows the number of records, r2 the held-out scores (in
   hundredths) of random_forest and gradient_boosting on it. *)
TrainingData ==
    { [id |-> 1, found |-> TRUE, columns |-> CsvColumns, rows |-> 100, r2 |-> <<80, 50>>],
      [id |-> 2, found |-> TRUE, columns |-> CsvColumns, rows |-> 100, r2 |-> <<50, 80>>],
      [id |-> 3, found |-> TRUE, columns |-> CsvColumns, rows |-> 100, r2 |-> <<70, 70>>],
      [id |-> 4, found |-> TRUE, columns |-> CsvColumns, rows |-> 5, r2 |-> <<0, 0>>],
      [id |-> 5, found |-> TRUE, columns |-> CsvColumns, rows |-> 1, r2 |-> <<0, 0>>],
      [id |-> 6, found |-> TRUE, columns |-> CsvColumns \ {"wind_speed"}, rows |-> 100, r2 |-> <<80, 50>>],
      [id |-> 7, found |-> TRUE, columns |-> CsvColumns \ {"energy_demand"}, rows |-> 100, r2 |-> <<80, 50>>],
      [id |-> 8, found |-> FALSE, columns |-> {}, rows |-> 0, r2 |-> <<0, 0>>] }

(* train_test_split(test_size=0.2): the test partition has ceil(0.2 n) rows *)
TestRows(n) == (n + 4) \div 5
TrainRows(n) == n - TestRows(n)

(* r2_score of candidate number c: NaN on fewer than two test samples *)
r2_score(data, c) == IF TestRows(data.rows) < 2 THEN NaN ELSE Num(data.r2[c])

(* lines 85-95: fit and score the candidates in the order of self.models,
   keeping the one whose score is greater than the best so far. acc is
   [models, best_model, best_score]. *)
RECURSIVE SelectBest(_, _, _)
SelectBest(data, c, acc) ==
    IF c > Len(Candidates) THEN acc
    ELSE LET name == Candidates[c]
             fitted == [acc.models EXCEPT ![name] = data.id]
             score == r2_score(data, c)
         IN  SelectBest(data, c + 1,
                IF Greater(score, acc.best_score)
                THEN [models |-> fitted, best_model |-> Ref(name), best_score |-> score]
                ELSE [acc EXCEPT !.models = fitted])

(* train on an engine holding (ms, bm, sc, fe) and a file system (ds, fs):
   everything after the call and the exception it raised ("" for none) *)
train(path, data, ms, bm, sc, fe, ds, fs) ==
    LET out(exc, ms2, bm2, sc2, fe2, ds2, fs2) ==
            [exc |-> exc, models |-> ms2, best_model |-> bm2, scaler |-> sc2,
             features |-> fe2, dirs |-> ds2, files |-> fs2]
        names == List(TrainFeatureNames)
    IN
    IF ~data.found THEN out("FileNotFoundError", ms, bm, sc, fe, ds, fs)      \* line 61
    ELSE IF "datetime" \notin data.columns
    THEN out("KeyError", ms, bm, sc, fe, ds, fs)                              \* line 62
    ELSE IF \E k \in 1..Len(TrainFeatureNames) :
                TrainFeatureNames[k] \in CsvColumns /\ TrainFeatureNames[k] \notin data.columns
    THEN out("KeyError", ms, bm, sc, names, ds, fs)                           \* line 74
    ELSE IF "energy_demand" \notin data.columns
    THEN out("KeyError", ms, bm, sc, names, ds, fs)                           \* line 75
    ELSE IF TrainRows(data.rows) = 0
    THEN out("ValueError", ms, bm, sc, names, ds, fs)                         \* line 78
    ELSE
    LET fitted_scaler == [sc EXCEPT !.fit = data.id]                          \* line 81
        sel == SelectBest(data, 1,
                   [models |-> ms, best_model |-> bm, best_score |-> MinusInf])
        model_file == ModelFile(path)
    IN  IF MakedirsRaises(dirname(path))                                      \* line 98
        THEN out("FileNotFoundError", sel.models, sel.best_model, fitted_scaler, names, ds, fs)
        ELSE LET ds2 == Makedirs(ds, dirname(path)) IN
             IF ~CanCreate(ds2, model_file)                                   \* line 99
             THEN out("FileNotFoundError", sel.models, sel.best_model, fitted_scaler,
                      names, ds2, fs)
             ELSE out("", sel.models, sel.best_model, fitted_scaler, names, ds2,
                      [f \in DOMAIN fs \cup {model_file} |->
                          IF f = model_file
                          THEN joblib_dump(sel.models,
                                   BundleDict(sel.best_model, fitted_scaler, names))
                          ELSE fs[f]])

----------------------------------------------------------------------------
(* The engine in its process: main.py constructs it, startup_event loads the
   model, get_forecast calls predict; train is run on demand. *)

configVars == <<model_path, api_key>>

(* 2023-01-01T00:00 (Sunday), 2023-01-06T13:00 (Friday, runs into Saturday),
   2023-02-28T20:00 (runs into March), 2023-12-31T12:00 (runs into 2024) *)
StartTimes == {0, 133, 1412, 8748}

(* The calls tried: every start time with a provider that answers, and every
   answer of the provider at one start time *)
PredictInputs ==
    { <<start_time, CHOOSE r \in GoodResponses : TRUE>> : start_time \in StartTimes }
    \cup { <<133, response>> : response \in Responses }

NoFiles == [f \in {} |-> Corrupt]
NoBundle == <<PyNone, PyNone, PyNone>>

(* the in-memory bundle by value *)
Bundle == <<Deref(models, best_model), scaler, features>>

(* the feature order of an artifact written by a training run that listed the
   weather columns first *)
OtherFeatureNames ==
    <<"temperature", "humidity", "wind_speed", "solar_irradiance",
      "hour", "day_of_week", "month", "is_weekend", "season">>

(* Artifacts found at the model path when the process starts: a truncated
   file, an artifact with another feature order, pickles of an incompatible
   layout (members missing), and the artifact of a training run on data set 1 *)
InitArtifacts ==
    { Corrupt,
      joblib_dump([c \in CandidateSet |-> 9],
                  BundleDict(Ref("gradient_boosting"), Scaler(9), List(OtherFeatureNames))),
      [t |-> "pickle", v |-> << <<"model", Regressor("random_forest", 1)>> >>],
      [t |-> "pickle", v |-> << <<"model", Regressor("random_forest", 1)>>,
                                <<"scaler", Scaler(1)>> >>],
      joblib_dump([c \in CandidateSet |-> 1],
                  BundleDict(Ref("random_forest"), Scaler(1), List(TrainFeatureNames))) }

Outcome(op, exc) ==
    [op |-> op, exc |-> exc, start_time |-> 0, points |-> << >>, trips |-> 0,
     response |-> NoResponse, load_tried |-> FALSE, load_exc |-> "", read |-> 0,
     entry |-> NoBundle, data |-> 0]

(* what a predict call left behind: its result and what it did on the way *)
Report(out, start_time, trips, response, load_tried, load_exc, read, entry) ==
    [op |-> "predict", exc |-> out.exc, start_time |-> start_time,
     points |-> out.points, trips |-> trips, response |-> response,
     load_tried |-> load_tried, load_exc |-> load_exc, read |-> read, entry |-> entry]

(* EnergyPredictor.__init__ *)
Construct ==
    /\ models = [c \in CandidateSet |-> 0]
    /\ scaler = Scaler(0)
    /\ best_model = PyNone
    /\ features = PyNone

NoThreads ==
    /\ tpc = << >>
    /\ tloc = << >>

NoFx == [timestamp |-> 0, weather |-> << >>, train |-> << >>, predict |-> << >>]

Init ==
    /\ model_path \in ModelPaths
    /\ api_key \in ApiKeys
    /\ Construct
    /\ \/ /\ files = NoFiles
          /\ dirs \in { {}, Prefixes(dirname(ModelFile(model_path))) }
       \/ /\ \E a \in InitArtifacts : files = [f \in {ModelFile(model_path)} |-> a]
          /\ dirs = Prefixes(dirname(ModelFile(model_path)))
    /\ phase = "boot"
    /\ last = Outcome("none", "")
    /\ loads_ok = 0 /\ reads = 0 /\ provider_calls = 0 /\ trains_ok = 0
    /\ written = NoBundle
    /\ nops = 0
    /\ NoThreads
    /\ fx = NoFx

(* startup_event: load_model, with FileNotFoundError swallowed; any other
   exception ends the process *)
Startup ==
    /\ phase = "boot"
    /\ nops < MaxOps
    /\ LET r == load_model(model_path, files, best_model, scaler, features) IN
       /\ best_model' = r.best_model
       /\ scaler' = r.scaler
       /\ features' = r.features
       /\ loads_ok' = loads_ok + (IF r.exc = "" THEN 1 ELSE 0)
       /\ reads' = reads + r.read
       /\ phase' = IF r.exc \in {"", "FileNotFoundError"} THEN "serving" ELSE "crashed"
       /\ last' = [Outcome("startup", r.exc) EXCEPT
                       !.load_tried = TRUE, !.load_exc = r.exc, !.read = r.read,
                       !.entry = Bundle]
    /\ nops' = nops + 1
    /\ UNCHANGED <<configVars, models, fsVars, provider_calls, trains_ok, written,
                   concVars, fx>>

(* get_forecast -> EnergyPredictor.predict(start_time, lat, lon); response is
   what the weather provider does if it is asked *)
Predict(start_time, response) ==
    /\ phase = "serving"
    /\ nops < MaxOps
    /\ LET load_tried == best_model.t = "null"                   \* line 136
           r == IF load_tried
                THEN load_model(model_path, files, best_model, scaler, features)
                ELSE [exc |-> "", best_model |-> best_model, scaler |-> scaler,
                      features |-> features, read |-> 0]
           asked == r.exc = "" /\ ProviderAsked(api_key)
       IN
       /\ best_model' = r.best_model
       /\ scaler' = r.scaler
       /\ features' = r.features
       /\ loads_ok' = loads_ok + (IF load_tried /\ r.exc = "" THEN 1 ELSE 0)
       /\ reads' = reads + r.read
       /\ provider_calls' = provider_calls + (IF asked THEN 1 ELSE 0)
       /\ last' = Report(IF r.exc # "" THEN Failure(r.exc)
                          ELSE forecast(start_time, get_weather_data(api_key, response),
                                        models, r.best_model, r.scaler, r.features),
                          start_time, IF asked THEN 1 ELSE 0,
                          IF asked THEN response ELSE NoResponse, load_tried, r.exc,
                          r.read, Bundle)
    /\ nops' = nops + 1
    /\ UNCHANGED <<configVars, models, fsVars, phase, trains_ok, written, concVars, fx>>

(* EnergyPredictor.train(data_path) on the engine of this process *)
Train(data) ==
    /\ phase \in {"boot", "serving"}
    /\ nops < MaxOps
    /\ LET r == train(model_path, data, models, best_model, scaler, features, dirs, files) IN
       /\ models' = r.models
       /\ best_model' = r.best_model
       /\ scaler' = r.scaler
       /\ features' = r.features
       /\ dirs' = r.dirs
       /\ files' = r.files
       /\ trains_ok' = trains_ok + (IF r.exc = "" THEN 1 ELSE 0)
       /\ written' = IF r.exc = ""
                     THEN <<Deref(r.models, r.best_model), r.scaler, r.features>>
                     ELSE written
       /\ last' = [Outcome("train", r.exc) EXCEPT !.entry = Bundle, !.data = data.id]
    /\ nops' = nops + 1
    /\ UNCHANGED <<configVars, phase, loads_ok, reads, provider_calls, concVars, fx>>

(* The process ends and a new one is started with the same configuration *)
Restart ==
    /\ nops < MaxOps
    /\ models' = [c \in CandidateSet |-> 0]
    /\ scaler' = Scaler(0)
    /\ best_model' = PyNone
    /\ features' = PyNone
    /\ phase' = "boot"
    /\ last' = Outcome("restart", "")
    /\ loads_ok' = 0 /\ reads' = 0 /\ provider_calls' = 0 /\ trains_ok' = 0
    /\ nops' = nops + 1
    /\ UNCHANGED <<configVars, fsVars, written, concVars, fx>>

Next ==
    \/ Startup
    \/ \E in \in PredictInputs : Predict(in[1], in[2])
    \/ \E data \in TrainingData : Train(data)
    \/ Restart

Spec == Init /\ [][Next]_vars

----------------------------------------------------------------------------
(* Several predict calls running concurrently on one engine, each in its own
   thread, without synchronization. A step is one statement of predict or of
   load_model; the attribute assignments of load_model, lines 110-112, are
   three steps. The engine starts Unloaded with the artifact of a training
   run at its model path. *)

Threads == 1..MaxThreads

NoLocals == [start_time |-> 0, saved_data |-> << >>, weather_data |-> << >>,
             sc |-> PyNone, fe |-> PyNone, loading |-> FALSE,
             out |-> Failure("")]

seqVars == <<phase, last, loads_ok, reads, provider_calls, trains_ok, written, nops>>

InitConc ==
    /\ model_path \in ModelPaths
    /\ api_key = KeyNone
    /\ Construct
    /\ files = [f \in {ModelFile(model_path)} |->
                   joblib_dump([c \in CandidateSet |-> 1],
                       BundleDict(Ref("random_forest"), Scaler(1), List(TrainFeatureNames)))]
    /\ dirs = Prefixes(dirname(ModelFile(model_path)))
    /\ phase = "serving"
    /\ last = Outcome("none", "")
    /\ loads_ok = 0 /\ reads = 0 /\ provider_calls = 0 /\ trains_ok = 0
    /\ written = NoBundle
    /\ nops = 0
    /\ tpc = [th \in Threads |-> "idle"]
    /\ tloc = [th \in Threads |-> NoLocals]
    /\ fx = NoFx

Goto(th, pos) == tpc' = [tpc EXCEPT ![th] = pos]
Raise(th, exc) ==
    /\ tpc' = [tpc EXCEPT ![th] = "failed"]
    /\ tloc' = [tloc EXCEPT ![th].out = Failure(exc)]

(* a request arrives: predict(start_time) is entered *)
Call(th, start_time) ==
    /\ tpc[th] = "idle"
    /\ Goto(th, "check")
    /\ tloc' = [tloc EXCEPT ![th].start_time = start_time]
    /\ UNCHANGED <<configVars, engineVars, fsVars, seqVars, fx>>

(* line 136: if self.best_model is None *)
Check(th) ==
    /\ tpc[th] = "check"
    /\ IF best_model.t = "null"
       THEN Goto(th, "exists") /\ tloc' = [tloc EXCEPT ![th].loading = TRUE]
       ELSE Goto(th, "weather") /\ UNCHANGED tloc
    /\ UNCHANGED <<configVars, engineVars, fsVars, seqVars, fx>>

(* line 108: if os.path.exists(model_file), else line 114 *)
Exists(th) ==
    /\ tpc[th] = "exists"
    /\ IF exists(files, ModelFile(model_path))
       THEN Goto(th, "load") /\ UNCHANGED tloc
       ELSE Raise(th, "FileNotFoundError")
    /\ UNCHANGED <<configVars, engineVars, fsVars, seqVars, fx>>

(* line 109: saved_data = joblib.load(model_file) *)
JoblibLoad(th) ==
    /\ tpc[th] = "load"
    /\ IF joblib_load_raises(files[ModelFile(model_path)])
       THEN Raise(th, "UnpicklingError")
       ELSE /\ Goto(th, "set_model")
            /\ tloc' = [tloc EXCEPT ![th].saved_data =
                                        joblib_load(files[ModelFile(model_path)])]
    /\ UNCHANGED <<configVars, engineVars, fsVars, seqVars, fx>>

(* line 110: self.best_model = saved_data['model'] *)
SetModel(th) ==
    /\ tpc[th] = "set_model"
    /\ IF HasKey(tloc[th].saved_data, "model")
       THEN /\ best_model' = Get(tloc[th].saved_data, "model")
            /\ Goto(th, "set_scaler") /\ UNCHANGED tloc
       ELSE Raise(th, "KeyError") /\ UNCHANGED best_model
    /\ UNCHANGED <<configVars, models, scaler, features, fsVars, seqVars, fx>>

(* line 111: self.scaler = saved_data['scaler'] *)
SetScaler(th) ==
    /\ tpc[th] = "set_scaler"
    /\ IF HasKey(tloc[th].saved_data, "scaler")
       THEN /\ scaler' = Get(tloc[th].saved_data, "scaler")
            /\ Goto(th, "set_features") /\ UNCHANGED tloc
       ELSE Raise(th, "KeyError") /\ UNCHANGED scaler
    /\ UNCHANGED <<configVars, models, best_model, features, fsVars, seqVars, fx>>

(* line 112: self.features = saved_data['features'] *)
SetFeatures(th) ==
    /\ tpc[th] = "set_features"
    /\ IF HasKey(tloc[th].saved_data, "features")
       THEN /\ features' = Get(tloc[th].saved_data, "features")
            /\ Goto(th, "weather") /\ UNCHANGED tloc
       ELSE Raise(th, "KeyError") /\ UNCHANGED features
    /\ UNCHANGED <<configVars, models, best_model, scaler, fsVars, seqVars, fx>>

(* line 140: weather_data = self.get_weather_data(lat, lon); no key is
   configured, so the provider is not asked *)
GetWeather(th) ==
    /\ tpc[th] = "weather"
    /\ Goto(th, "frame")
    /\ tloc' = [tloc EXCEPT ![th].weather_data = get_weather_data(api_key, NoResponse)]
    /\ UNCHANGED <<configVars, engineVars, fsVars, seqVars, fx>>

(* lines 144-161: the loop, then self.scaler.transform(forecast_df[self.features]),
   which reads self.features and self.scaler *)
Frame(th) ==
    /\ tpc[th] = "frame"
    /\ IF features.t # "list" THEN Raise(th, "KeyError")
       ELSE IF scaler.fit = 0 THEN Raise(th, "NotFittedError")
       ELSE /\ Goto(th, "predict")
            /\ tloc' = [tloc EXCEPT ![th].sc = scaler, ![th].fe = features]
    /\ UNCHANGED <<configVars, engineVars, fsVars, seqVars, fx>>

(* lines 164-181: self.best_model.predict(X_scaled), which reads
   self.best_model, and the result *)
ModelPredict(th) ==
    /\ tpc[th] = "predict"
    /\ tpc' = [tpc EXCEPT ![th] = "done"]
    /\ tloc' = [tloc EXCEPT ![th].out =
                   forecast(tloc[th].start_time, tloc[th].weather_data, models,
                            best_model, tloc[th].sc, tloc[th].fe)]
    /\ UNCHANGED <<configVars, engineVars, fsVars, seqVars, fx>>

NextConc ==
    \/ \E th \in Threads, start_time \in StartTimes : Call(th, start_time)
    \/ \E th \in Threads : Check(th)
    \/ \E th \in Threads : Exists(th)
    \/ \E th \in Threads : JoblibLoad(th)
    \/ \E th \in Threads : SetModel(th)
    \/ \E th \in Threads : SetScaler(th)
    \/ \E th \in Threads : SetFeatures(th)
    \/ \E th \in Threads : GetWeather(th)
    \/ \E th \in Threads : Frame(th)
    \/ \E th \in Threads : ModelPredict(th)

SpecConc == InitConc /\ [][NextConc]_vars

----------------------------------------------------------------------------
(* Feature engineering on one timestamp and one weather reading: the row of
   X that train builds from a CSV record, and the row that predict hands to
   the scaler. The record carries the reading's temperature, humidity and
   wind speed, and the irradiance that the reading's cloud cover gives. *)

Timestamps == 0..MaxTimestamp

WeatherReadings ==
    { DefaultWeather,
      << <<"temperature", Num(30)>>, <<"humidity", Num(40)>>,
         <<"wind_speed", Num(7)>>, <<"cloud_cover", Num(0)>> >>,
      << <<"temperature", Num(-5)>>, <<"humidity", Num(90)>>,
         <<"wind_speed", Num(2)>>, <<"cloud_cover", Num(100)>> >> }

CsvRecord(timestamp, w) ==
    << <<"datetime", Num(timestamp)>>,
       <<"temperature", Get(w, "temperature")>>,
       <<"humidity", Get(w, "humidity")>>,
       <<"solar_irradiance", Num(SolarIrradiance(Get(w, "cloud_cover").v))>>,
       <<"wind_speed", Get(w, "wind_speed")>>,
       <<"energy_demand", Num(0)>> >>

(* train, lines 65-74: one row of X = df[self.features], with its columns *)
TrainVector(timestamp, w) ==
    [names |-> TrainFeatureNames,
     x |-> SelectColumns(TrainFrameRow(CsvRecord(timestamp, w)), TrainFeatureNames)]

(* predict, lines 146-161: one row of forecast_df[self.features], with the
   keys of the dict it was selected from; names is the persisted order *)
PredictVector(timestamp, w, names) ==
    [names |-> Keys(PredictFeatureDict(timestamp, w)),
     x |-> SelectColumns(PredictFeatureDict(timestamp, w), names)]

InitFeat ==
    /\ model_path = <<"models", "">>
    /\ api_key = KeyNone
    /\ Construct
    /\ files = NoFiles /\ dirs = {}
    /\ phase = "boot"
    /\ last = Outcome("none", "")
    /\ loads_ok = 0 /\ reads = 0 /\ provider_calls = 0 /\ trains_ok = 0
    /\ written = NoBundle
    /\ nops = 0
    /\ NoThreads
    /\ \E timestamp \in Timestamps, w \in WeatherReadings :
          fx = [NoFx EXCEPT !.timestamp = timestamp, !.weather = w]

TrainFeatures ==
    /\ fx.train = << >>
    /\ fx' = [fx EXCEPT !.train = <<TrainVector(fx.timestamp, fx.weather)>>]
    /\ UNCHANGED <<configVars, engineVars, fsVars, seqVars, concVars>>

PredictFeatures ==
    /\ fx.predict = << >>
    /\ fx' = [fx EXCEPT !.predict =
                 <<PredictVector(fx.timestamp, fx.weather, TrainFeatureNames)>>]
    /\ UNCHANGED <<configVars, engineVars, fsVars, seqVars, concVars>>

NextFeat == TrainFeatures \/ PredictFeatures

SpecFeat == InitFeat /\ [][NextFeat]_vars

----------------------------------------------------------------------------
(* Properties of the engine in its process *)

PredictDone == last.op = "predict"

(* a triple that predict can use: a fitted model, a fitted scaler, a list *)
Complete(b) == b[1].t = "obj" /\ b[1].fit # 0 /\ b[2].fit # 0 /\ b[3].t = "list"

ArtifactPresent == exists(files, ModelFile(model_path))

(* the artifact at the model path holds a usable bundle *)
ArtifactValid ==
    /\ ArtifactPresent
    /\ ~joblib_load_raises(files[ModelFile(model_path)])
    /\ LET d == joblib_load(files[ModelFile(model_path)]) IN
       /\ HasKey(d, "model") /\ HasKey(d, "scaler") /\ HasKey(d, "features")
       /\ Complete(<<Get(d, "model"), Get(d, "scaler"), Get(d, "features")>>)

(* the engine held a bundle when the call began, or could load one *)
BundleAvailable ==
    \/ Complete(last.entry)
    \/ last.entry[1].t = "null" /\ ArtifactValid

HourlyFrom(points, start_time) ==
    /\ Len(points) = ForecastHours
    /\ \A i \in 1..Len(points) :
          points[i].datetime = isoformat(PlusHours(start_time, i - 1))
    /\ \A i \in 1..(Len(points) - 1) :
          IsoLess(points[i].datetime, points[i + 1].datetime)

DefaultAnnotation ==
    [temperature |-> Num(DefaultTemperature), humidity |-> Num(DefaultHumidity),
     wind_speed |-> Num(DefaultWindSpeed),
     solar_irradiance |-> Num(SolarIrradiance(DefaultCloudCover))]

(* C1: a predict call on an engine whose bundle is available returns exactly
   24 points, the i-th carrying the timestamp start_time + i hours, strictly
   increasing. *)
C1_HourlyPoints ==
    (PredictDone /\ BundleAvailable)
        => (last.exc = "" /\ HourlyFrom(last.points, last.start_time))

(* C2: a predict call on an engine that never succeeded in loading or
   training, with no artifact at the model path, fails with the
   model-not-found error, returns no point and leaves best_model None. *)
C2_ModelNotFound ==
    (PredictDone /\ loads_ok = 0 /\ trains_ok = 0 /\ ~ArtifactPresent)
        => (last.exc = "FileNotFoundError" /\ last.points = << >>
            /\ best_model = PyNone)

(* C3: for every failed outcome of the provider, get_current_weather
   returns None and predict on a Ready engine returns 24 points, all
   annotated with the default snapshot. *)
C3_WeatherFallback ==
    (PredictDone /\ Complete(last.entry) /\ last.response \in FailedResponses)
        => /\ get_current_weather(last.response).t = "null"
           /\ last.exc = ""
           /\ Len(last.points) = ForecastHours
           /\ \A i \in 1..Len(last.points) : last.points[i].weather = DefaultAnnotation

(* C4: a load_model call that fails leaves best_model, scaler and features
   as they were. *)
C4_LoadAllOrNothing ==
    (last.load_tried /\ last.load_exc # "") => Bundle = last.entry

(* C5: predict tries a load exactly when best_model is None at entry, the
   artifact is loaded successfully at most once in a process, and a predict
   that does not load leaves the bundle alone and does not read the
   artifact. *)
C5_LoadedOnce ==
    /\ PredictDone => (last.load_tried <=> last.entry[1].t = "null")
    /\ loads_ok <= 1
    /\ (PredictDone /\ ~last.load_tried) => (Bundle = last.entry /\ last.read = 0)

(* the weather values inside a feature vector x laid out in the order names *)
Position(names, name) == CHOOSE k \in 1..Len(names) : names[k] = name
WeatherIn(names, x) ==
    [temperature |-> x[Position(names, "temperature")],
     humidity |-> x[Position(names, "humidity")],
     wind_speed |-> x[Position(names, "wind_speed")],
     solar_irradiance |-> x[Position(names, "solar_irradiance")]]

(* the annotation that the snapshot w gives *)
AnnotationOf(w) ==
    [temperature |-> Get(w, "temperature"), humidity |-> Get(w, "humidity"),
     wind_speed |-> Get(w, "wind_speed"),
     solar_irradiance |-> Num(SolarIrradiance(Get(w, "cloud_cover").v))]

(* C8: one predict call makes at most one round trip to the provider, and
   the one snapshot it obtained is what every one of the 24 feature vectors
   and every one of the 24 annotations carries. *)
C8_OneSnapshot ==
    PredictDone =>
        /\ last.trips <= 1
        /\ last.exc = "" =>
              \A i \in 1..Len(last.points) :
                 /\ last.points[i].weather =
                        AnnotationOf(get_weather_data(api_key, last.response))
                 /\ WeatherIn(features.v, last.points[i].predicted_demand.input.x)
                        = last.points[i].weather

C8_Witness ==
    /\ PredictDone /\ last.exc = "" /\ last.trips = 1
    /\ last.response \in GoodResponses
    /\ Len(last.points) = ForecastHours

(* C9: an engine constructed with the key None or "" never asks the weather
   provider; every predict on it uses the default snapshot. *)
C9_NoKeyNoProvider ==
    (api_key \in {KeyNone, ""}) =>
        /\ provider_calls = 0
        /\ last.trips = 0
        /\ last.response.kind = "not_called"
        /\ (PredictDone /\ last.exc = "") =>
              \A i \in 1..Len(last.points) : last.points[i].weather = DefaultAnnotation

C9_Witness ==
    /\ api_key = "" /\ PredictDone /\ last.exc = ""
    /\ Len(last.points) = ForecastHours

(* C10: once train has completed, a load_model on an engine with the same
   model path yields the triple train selected and fitted, and so the same
   prediction on a fixed scaled input. *)
C10_RoundTrip ==
    (last.load_tried /\ last.load_exc = "" /\ written # NoBundle) =>
        /\ Bundle = written
        /\ model_predict(Bundle[1], transform(Bundle[2], TrainFeatureNames))
              = model_predict(written[1], transform(written[2], TrainFeatureNames))

C10_Witness ==
    /\ last.op = "startup" /\ last.load_exc = "" /\ trains_ok = 0
    /\ written[1].t = "obj" /\ written[1].kind = "gradient_boosting"
    /\ Bundle = written

(* the bundles a training run on the data set id can produce: one of the
   candidates and the scaler, both fitted on it, with the feature list *)
TrainedBundles(id) ==
    { <<Regressor(c, id), Scaler(id), List(TrainFeatureNames)>> : c \in CandidateSet }

(* C13: after a train call, completed or failed, the in-memory triple is
   either the one the engine held at entry or one made entirely by this
   training run. *)
C13_WholesaleReplace ==
    last.op = "train" => (Bundle = last.entry \/ Bundle \in TrainedBundles(last.data))

(* the training file of the last train call *)
LastData == CHOOSE d \in TrainingData : d.id = last.data

(* C14: a train call that completes has selected and written the candidate
   with the strictly higher held-out score, random_forest when the scores
   are equal, and the model in the artifact is one of the two candidates. *)
C14_SelectBest ==
    (last.op = "train" /\ last.exc = "") =>
        LET rf == r2_score(LastData, 1)
            gb == r2_score(LastData, 2)
            saved == Get(joblib_load(files[ModelFile(model_path)]), "model")
        IN  /\ Greater(gb, rf) => Bundle[1] = Regressor("gradient_boosting", last.data)
            /\ Greater(rf, gb) => Bundle[1] = Regressor("random_forest", last.data)
            /\ (rf.t = "num" /\ gb.t = "num" /\ rf.v = gb.v)
                   => Bundle[1] = Regressor("random_forest", last.data)
            /\ saved = Bundle[1]
            /\ saved.t = "obj" /\ saved.kind \in CandidateSet

(* the dict predict built for hour i of the last call *)
HourDict(i) ==
    PredictFeatureDict(PlusHours(last.start_time, i - 1),
                       get_weather_data(api_key, last.response))

(* C15: in every predict call that reaches the scaler, position k of each of
   the 24 rows holds the feature named at position k of the persisted
   feature list, whatever order the per-hour dict was built in. *)
C15_PersistedOrder ==
    (PredictDone /\ last.exc = "") =>
        \A i \in 1..Len(last.points) :
            LET x == last.points[i].predicted_demand.input.x IN
            /\ Len(x) = Len(features.v)
            /\ \A k \in 1..Len(x) : x[k] = Get(HourDict(i), features.v[k])

(* a call on the bundle train writes: the dict has wind_speed at position 8,
   the list has solar_irradiance there, and the row follows the list *)
C15_Witness ==
    /\ PredictDone /\ last.exc = "" /\ Len(last.points) = ForecastHours
    /\ features.v = TrainFeatureNames
    /\ Keys(HourDict(1))[8] = "wind_speed" /\ features.v[8] = "solar_irradiance"
    /\ LET x == last.points[1].predicted_demand.input.x IN
       /\ x[8] = Get(HourDict(1), "solar_irradiance")
       /\ x[8] # Get(HourDict(1), "wind_speed")

----------------------------------------------------------------------------
(* Properties of concurrent predict calls *)

(* the triple the artifact holds *)
ArtifactBundle ==
    LET d == joblib_load(files[ModelFile(model_path)]) IN
    <<Get(d, "model"), Get(d, "scaler"), Get(d, "features")>>

(* C6: of the predict calls running concurrently on an engine that starts
   Unloaded with a valid artifact, none fails, none that skipped the load
   finds scaler or features still unloaded, and every one that finishes
   returns what the loaded triple gives. *)
C6_ConcurrentLoad ==
    \A th \in DOMAIN tpc :
        /\ tpc[th] # "failed"
        /\ (tpc[th] \in {"weather", "frame"} /\ ~tloc[th].loading)
              => <<Deref(models, best_model), scaler, features>> = ArtifactBundle
        /\ tpc[th] = "done"
              => tloc[th].out =
                    forecast(tloc[th].start_time, DefaultWeather, models,
                             ArtifactBundle[1], ArtifactBundle[2], ArtifactBundle[3])

----------------------------------------------------------------------------
----------------------------------------------------------------------------
(* The irradiance that predict derives from the cloud cover of its snapshot,
   line 155, on two snapshots at a time so that the results can be compared. *)

CloudCovers == 0..100

Reading(cloud_cover) ==
    << <<"temperature", Num(DefaultTemperature)>>, <<"humidity", Num(DefaultHumidity)>>,
       <<"wind_speed", Num(DefaultWindSpeed)>>, <<"cloud_cover", Num(cloud_cover)>> >>

InitIrr ==
    /\ model_path = <<"models", "">>
    /\ api_key = KeyNone
    /\ Construct
    /\ files = NoFiles /\ dirs = {}
    /\ phase = "boot"
    /\ last = Outcome("none", "")
    /\ loads_ok = 0 /\ reads = 0 /\ provider_calls = 0 /\ trains_ok = 0
    /\ written = NoBundle
    /\ nops = 0
    /\ NoThreads
    /\ \E c1 \in CloudCovers, c2 \in CloudCovers :
          fx = [NoFx EXCEPT !.weather = <<Reading(c1), Reading(c2)>>]

Irradiance ==
    /\ fx.predict = << >>
    /\ fx' = [fx EXCEPT !.predict =
                 <<PredictFeatureDict(fx.timestamp, fx.weather[1]),
                   PredictFeatureDict(fx.timestamp, fx.weather[2])>>]
    /\ UNCHANGED <<configVars, engineVars, fsVars, seqVars, concVars>>

NextIrr == Irradiance

SpecIrr == InitIrr /\ [][NextIrr]_vars

(* C11: for cloud covers in 0..100 the irradiance is never negative, is 1000
   under a clear sky and 0 under a full overcast, and does not grow when the
   cloud cover grows. *)
C11_Irradiance ==
    fx.predict # << >> =>
        LET c1 == Get(fx.weather[1], "cloud_cover").v
            c2 == Get(fx.weather[2], "cloud_cover").v
            s1 == Get(fx.predict[1], "solar_irradiance").v
            s2 == Get(fx.predict[2], "solar_irradiance").v
        IN  /\ s1 >= 0
            /\ c1 = 0 => s1 = 1000
            /\ c1 = 100 => s1 = 0
            /\ c1 <= c2 => s1 >= s2

(* a clear sky and a full overcast, both computed *)
C11_Witness ==
    /\ fx.predict # << >>
    /\ Get(fx.weather[1], "cloud_cover").v = 0
    /\ Get(fx.weather[2], "cloud_cover").v = 100
    /\ Get(fx.predict[1], "solar_irradiance").v = 1000
    /\ Get(fx.predict[2], "solar_irradiance").v = 0

----------------------------------------------------------------------------
(* Properties of feature engineering *)

SetOf(seq) == {seq[i] : i \in 1..Len(seq)}
Feature(v, name) == v.x[Position(TrainFeatureNames, name)].v

(* C7: for every timestamp and weather reading the training row and the
   inference row are equal element for element, over the same nine feature
   names, with day_of_week 0 on Mondays and is_weekend 1 exactly on days 5
   and 6. *)
C7_FeatureParity ==
    (fx.train # << >> /\ fx.predict # << >>) =>
        LET tr == fx.train[1]
            pr == fx.predict[1]
        IN  /\ tr.x = pr.x
            /\ SetOf(tr.names) = SetOf(pr.names)
            /\ Len(pr.names) = 9 /\ Len(tr.names) = 9
            /\ Feature(pr, "day_of_week") = (DayNumber(fx.timestamp) + 6) % 7
            /\ Feature(pr, "is_weekend") = 1 <=> Feature(pr, "day_of_week") \in {5, 6}
            /\ Feature(pr, "is_weekend") \in {0, 1}

(* a Saturday: both rows are built and carry is_weekend = 1 *)
C7_Witness ==
    /\ fx.train # << >> /\ fx.predict # << >>
    /\ Feature(fx.train[1], "day_of_week") = 5
    /\ Feature(fx.predict[1], "is_weekend") = 1
    /\ Feature(fx.predict[1], "month") = 12

(* the seasons by month: December to February, March to May, June to August,
   September to November *)
SeasonTable == <<1, 1, 2, 2, 2, 3, 3, 3, 4, 4, 4, 1>>

SeasonRule(v) ==
    LET month == Feature(v, "month")
        season == Feature(v, "season")
    IN  /\ month \in 1..12
        /\ season = ((month % 12) \div 3) + 1
        /\ season \in 1..4
        /\ season = SeasonTable[month]

(* C12: in the training row and in the inference row the season is
   (month % 12) // 3 + 1, an integer in 1..4: 1 for December, January and
   February, 2 for March to May, 3 for June to August, 4 for September to
   November. *)
C12_Season ==
    /\ fx.train # << >> => (SeasonRule(fx.train[1])
                              /\ Feature(fx.train[1], "month") = MonthOf(fx.timestamp))
    /\ fx.predict # << >> => (SeasonRule(fx.predict[1])
                                /\ Feature(fx.predict[1], "month") = MonthOf(fx.timestamp))

(* a December timestamp whose two rows carry season 1 *)
C12_Witness ==
    /\ fx.train # << >> /\ fx.predict # << >>
    /\ MonthOf(fx.timestamp) = 12 /\ YearOf(fx.timestamp) = 2023
    /\ Feature(fx.train[1], "season") = 1
    /\ Feature(fx.predict[1], "season") = 1

====
